---- MODULE Spec2Model ----
(***************************************************************************)
(* Model of the rental pooling and task dispatching core of                *)
(* tesseract-ocr-golem: src/src/golem.ts (class Golem) on top of the       *)
(* generic-pool Pool that Golem.buildActivityPool configures.              *)
(*                                                                         *)
(* One Golem instance, NumCalls one-shot sendTask calls, NumStops calls of *)
(* stop()/abort().  Every action is one run-to-completion step of the      *)
(* JavaScript event loop: the synchronous code between two awaits.         *)
(***************************************************************************)
EXTENDS Naturals, Integers, Sequences, FiniteSets, TLC

\* ------------------------------------------------------------------ bounds
NumCalls == 3        \* sendTask calls issued over a run
NumStops == 2        \* stop()/abort() calls issued over a run
MaxLeases == 2       \* activities the marketplace yields over a run
MaxReplicas == 2     \* config.deploy.maxReplicas
MaxOps == 3          \* client operations (sendTask, stop, abort) issued over a run

Calls == 1..NumCalls
Stops == 1..NumStops
Leases == 1..MaxLeases

\* ------------------------------------------------------------------- state
VARIABLES
  aborted,      \* abortController.signal.aborted
  onabort,      \* abortController.signal.onabort: the call whose reject it holds, 0 if unset
  draining,     \* activityPool._draining
  evictor,      \* the pool's eviction timer is scheduled
  leaseState,   \* per activity: none, idle, testing, borrowed, destroyed (handed to destroy)
  available,    \* activityPool._availableObjects, oldest first
  creating,     \* activityPool._factoryCreateOperations.size
  waiting,      \* activityPool._waitingClientsQueue, oldest first
  nextId,       \* the next activity the create hook yields
  pc,           \* per sendTask call: idle, waiting, acquired, awaiting, done
  got,          \* per sendTask call: the activity it or its task still refers to, 0 if none
  prom,         \* per sendTask call: the inner promise: pending, resolved, rejTask, rejAbort
  work,         \* per sendTask call: none, before (ctx.before()), task (task(ctx)), finished
  result,       \* per sendTask call: how the call settled
  released,     \* per sendTask call: number of activityPool.release() calls it made
  spc,          \* per stop call: idle, or the stage of stop() it awaits, or done
  failed,       \* per stop call: the stage it awaits rejected, and stop() with it
  tail,         \* per stop call: the tail request drain() waits for, 0 if none
  snap,         \* per stop call: the loans drain() waits for, {0} before it looks
  abortCalled,  \* abort() has been called
  ipc,          \* TesseractOcrOnGolem.init(): idle, fetching, racing, done, failed
  initError,    \* why init() rejected: none, timeout, startError
  isInitialized,\* TesseractOcrOnGolem.isInitialized
  golemSet,     \* TesseractOcrOnGolem.golem is assigned
  withProviders,\* config.service.market.withProviders: Undefined, or a list of provider ids
  startPc,      \* Golem.start(): none, allocating, services, resolved, rejected
  svc,          \* per marketplace service: off, starting, running, failed
  timer,        \* the startup timeout of init(): unset, armed, fired
  shpc,         \* TesseractOcrOnGolem.shutdown(): idle, stopping (in golem.stop()),
                \* noGolem (golem undefined), done, failed
  fetched,      \* history: what fetchRecommendedProviders() returned: none (not called
                \* or not back yet), data, fallback
  lastDone,     \* history: the last of init() and shutdown() to have completed: none, init, shutdown
  config,       \* the configuration a proposal filter was built from
  proposal,     \* the proposal last offered to the filter, NoProposal before the first
  accepted,     \* what the filter returned for it
  dead,         \* the activities whose state is Terminated
  dpc           \* per activity: the destroy hook: none (not run, or in activity.stop()),
                \* release (in releaseAgreement), resolved, rejectedStop, rejectedRelease

poolVars == <<draining, evictor, leaseState, available, creating, waiting, nextId>>
callVars == <<pc, got, prom, work, result, released>>
stopVars == <<spc, failed, tail, snap, abortCalled>>
golemVars == <<aborted, onabort, poolVars, callVars, stopVars>>
initVars == <<ipc, initError, isInitialized, golemSet, withProviders, startPc, svc, timer,
              shpc, fetched, lastDone>>
filterVars == <<config, proposal, accepted>>
hookVars == <<dead, dpc>>
others == <<initVars, filterVars, hookVars>>
vars == <<golemVars, initVars, filterVars, hookVars>>

\* ---------------------------------------------------------------- helpers
\* The services Golem.start() runs and Golem.stop() ends.
Services == {"agreement", "market", "payment"}

\* Values of market.withProviders: left out of the config, or a list of ids.
Undefined == [defined |-> FALSE, ids |-> {}]

Whitelist(ids) == [defined |-> TRUE, ids |-> ids]

\* A configuration and the absence of a proposal, before the filter is exercised.
DefaultConfig ==
  [withProviders |-> Whitelist({}), rentHours |-> 1, priceGlmPerHour |-> 1, minCpu |-> 0,
   maxReplicas |-> 1]

NoProposal == [provider |-> "none", start |-> 0, cpuSec |-> 0, envSec |-> 0, threads |-> 0]

Min(a, b) == IF a < b THEN a ELSE b

Max0(a) == IF a < 0 THEN 0 ELSE a

InState(ls, st) == {l \in Leases : ls[l] = st}

\* Stages of stop(), in program order.
Stages == <<"drain", "marketEnd", "agreementEnd", "paymentEnd", "storageClose", "yagnaEnd">>

StageSet == {Stages[i] : i \in 1..Len(Stages)}

StageIndex(st) == CHOOSE i \in 1..Len(Stages) : Stages[i] = st


StopBegun == \E s \in Stops : spc[s] # "idle"

\* Client operations issued so far.
issuedOps == Cardinality({c \in Calls : pc[c] # "idle"})
             + Cardinality({s \in Stops : spc[s] # "idle"})

\* A call holds a loan from acquire() resolving until its release().
HoldsLoan(c) == pc[c] \in {"acquired", "awaiting"}

\* ------------------------------------------------------------- the pool
\* generic-pool's Pool as configured by buildActivityPool: testOnBorrow, max,
\* evictionRunIntervalMillis, acquireTimeoutMillis; min, fifo and the rest default.

\* Pool._allObjects.size: activities created and not yet handed to destroy.
allObjectsSize(ls) == Cardinality(InState(ls, "idle") \cup InState(ls, "testing")
                                  \cup InState(ls, "borrowed"))

\* Mutant: the capacity forgets the creations still in progress.
spareResourceCapacityIgnoringCreates(ls, cr) == MaxReplicas - allObjectsSize(ls)

\* Pool.spareResourceCapacity with max = config.deploy.maxReplicas.
spareResourceCapacity(ls, cr) == MaxReplicas - (allObjectsSize(ls) + cr)

\* Mutant: _dispense() sends idle activities to validation but leaves them in the
\* available list, from where they are handed out again.
dispenseKeepsAvailable(w, av, ls, cr) ==
  IF Len(w) < 1
  THEN [available |-> av, leaseState |-> ls, creating |-> cr]
  ELSE LET testing == Cardinality(InState(ls, "testing"))
           shortfall == Len(w) - (Len(av) + testing + cr)
           toCreate == Max0(Min(spareResourceCapacity(ls, cr), shortfall))
           toTest == Max0(Min(Len(av), Len(w)))
           moved == {av[i] : i \in 1..toTest}
       IN [available |-> av,
           leaseState |-> [l \in Leases |-> IF l \in moved THEN "testing" ELSE ls[l]],
           creating |-> cr + toCreate]

\* Pool._dispense(): start creations for the shortfall of waiting requests, up to
\* the spare capacity, then move idle activities into validation (testOnBorrow).
\* w: waiting queue, av: available, ls: lease states, cr: pending creations.
dispense(w, av, ls, cr) ==
  IF Len(w) < 1
  THEN [available |-> av, leaseState |-> ls, creating |-> cr]
  ELSE LET testing == Cardinality(InState(ls, "testing"))
           shortfall == Len(w) - (Len(av) + testing + cr)
           toCreate == Max0(Min(spareResourceCapacity(ls, cr), shortfall))
           toTest == Max0(Min(Len(av), Len(w) - testing))
           moved == {av[i] : i \in 1..toTest}
       IN [available |-> SubSeq(av, toTest + 1, Len(av)),
           leaseState |-> [l \in Leases |-> IF l \in moved THEN "testing" ELSE ls[l]],
           creating |-> cr + toCreate]

\* Assign the pool variables from a _dispense() result.
setPool(w, d) ==
  /\ waiting' = w
  /\ available' = d.available
  /\ leaseState' = d.leaseState
  /\ creating' = d.creating

\* Pool.acquire(): rejects when draining, else queues the request and dispenses.
acquire(c) ==
  IF draining
  THEN /\ pc' = [pc EXCEPT ![c] = "done"]
       /\ result' = [result EXCEPT ![c] = "PoolDraining"]
       /\ UNCHANGED <<waiting, available, leaseState, creating>>
  ELSE /\ pc' = [pc EXCEPT ![c] = "waiting"]
       /\ setPool(Append(waiting, c), dispense(Append(waiting, c), available, leaseState, creating))
       /\ UNCHANGED result

\* Mutant: release() puts the activity back but does not call _dispense().
releaseWithoutDispense(c) ==
  LET av == Append(available, got[c])
      ls == [leaseState EXCEPT ![got[c]] = "idle"]
  IN /\ released' = [released EXCEPT ![c] = @ + 1]
     /\ got' = [got EXCEPT ![c] = IF work[c] \in {"before", "task"} THEN @ ELSE 0]
     /\ setPool(waiting, [available |-> av, leaseState |-> ls, creating |-> creating])

\* Pool.release(): the loan ends, the activity is idle again, then _dispense().
\* The call's reference to the activity dies with it unless its work still runs.
release(c) ==
  LET av == Append(available, got[c])
      ls == [leaseState EXCEPT ![got[c]] = "idle"]
  IN /\ released' = [released EXCEPT ![c] = @ + 1]
     /\ got' = [got EXCEPT ![c] = IF work[c] \in {"before", "task"} THEN @ ELSE 0]
     /\ setPool(waiting, dispense(waiting, av, ls, creating))

\* The create hook resolved: the new activity becomes available, then _dispense().
createDone ==
  /\ creating > 0
  /\ nextId <= MaxLeases
  /\ LET av == Append(available, nextId)
         ls == [leaseState EXCEPT ![nextId] = "idle"]
     IN setPool(waiting, dispense(waiting, av, ls, creating - 1))
  /\ nextId' = nextId + 1
  /\ UNCHANGED <<others, aborted, onabort, draining, evictor, callVars, stopVars>>

\* The create hook rejected (no agreement): factoryCreateError, then _dispense().
createFail ==
  /\ creating > 0
  /\ setPool(waiting, dispense(waiting, available, leaseState, creating - 1))
  /\ UNCHANGED <<others, aborted, onabort, draining, evictor, nextId, callVars, stopVars>>

\* What activity.getState() gives the validate hook: a state of the activity, or
\* "error" when the call rejects.
GetStateOutcomes ==
  {"New", "Initialized", "Deployed", "Ready", "Unresponsive", "Terminated", "error"}

\* Mutant: validate only catches a failed state check.
validateOnlyCatches(o) == o # "error"

\* The validate hook: false for a Terminated activity and for a state check that
\* failed, true for any other state; it never rejects.
validate(o) == IF o = "error" THEN FALSE ELSE o # "Terminated"

\* Mutant: the pool hands the activity out whatever the validate hook answered.
validateDoneIgnoresResult(l, ok) ==
  /\ leaseState[l] = "testing"
  /\ IF waiting = <<>>
     THEN /\ available' = Append(available, l)
          /\ leaseState' = [leaseState EXCEPT ![l] = "idle"]
          /\ UNCHANGED <<waiting, creating, pc, got>>
     ELSE /\ waiting' = Tail(waiting)
          /\ leaseState' = [leaseState EXCEPT ![l] = "borrowed"]
          /\ pc' = [pc EXCEPT ![Head(waiting)] = "acquired"]
          /\ got' = [got EXCEPT ![Head(waiting)] = l]
          /\ UNCHANGED <<available, creating>>
  /\ UNCHANGED <<others, aborted, onabort, draining, evictor, nextId, prom, work, result,
                 released, stopVars>>

\* The validate hook resolved for an activity under test on borrow.
validateDone(l, ok) ==
  /\ leaseState[l] = "testing"
  /\ IF ~ok
     THEN \* invalid: _destroy(), then _dispense()
          /\ setPool(waiting, dispense(waiting, available,
                                       [leaseState EXCEPT ![l] = "destroyed"], creating))
          /\ UNCHANGED <<pc, got>>
     ELSE IF waiting = <<>>
     THEN \* nobody waits any more: back to the available objects
          /\ available' = Append(available, l)
          /\ leaseState' = [leaseState EXCEPT ![l] = "idle"]
          /\ UNCHANGED <<waiting, creating, pc, got>>
     ELSE \* _dispatchPooledResourceToNextWaitingClient
          /\ waiting' = Tail(waiting)
          /\ leaseState' = [leaseState EXCEPT ![l] = "borrowed"]
          /\ pc' = [pc EXCEPT ![Head(waiting)] = "acquired"]
          /\ got' = [got EXCEPT ![Head(waiting)] = l]
          /\ UNCHANGED <<available, creating>>
  /\ UNCHANGED <<others, aborted, onabort, draining, evictor, nextId, prom, work, result,
                 released, stopVars>>

\* Mutant: the timed-out request is rejected but stays in the waiting queue.
acquireTimeoutKeepsRequest ==
  /\ waiting # <<>>
  /\ pc[Head(waiting)] = "waiting"
  /\ pc' = [pc EXCEPT ![Head(waiting)] = "done"]
  /\ result' = [result EXCEPT ![Head(waiting)] = "AcquireTimeout"]
  /\ UNCHANGED <<others, aborted, onabort, draining, evictor, leaseState, available, creating,
                 waiting, nextId, got, prom, work, released, stopVars>>

\* acquireTimeoutMillis elapsed for the oldest waiting request.
acquireTimeout ==
  /\ waiting # <<>>
  /\ waiting' = Tail(waiting)
  /\ pc' = [pc EXCEPT ![Head(waiting)] = "done"]
  /\ result' = [result EXCEPT ![Head(waiting)] = "AcquireTimeout"]
  /\ UNCHANGED <<others, aborted, onabort, draining, evictor, leaseState, available, creating,
                 nextId, got, prom, work, released, stopVars>>

\* An eviction run (evictionRunIntervalMillis) destroys an activity idle for too long.
evict(l) ==
  /\ evictor
  /\ leaseState[l] = "idle"
  /\ leaseState' = [leaseState EXCEPT ![l] = "destroyed"]
  /\ available' = SelectSeq(available, LAMBDA x : x # l)
  /\ UNCHANGED <<others, aborted, onabort, draining, evictor, creating, waiting, nextId,
                 callVars, stopVars>>


\* ------------------------------------------------------------ Golem.sendTask
\* A call settles without ever having held an activity.
settleEarly(c, r) ==
  /\ pc' = [pc EXCEPT ![c] = "done"]
  /\ result' = [result EXCEPT ![c] = r]

\* Mutant: sendTask without the pre-check of the signal.
sendTaskNoPreCheck(c) ==
  /\ pc[c] = "idle"
  /\ IF c = 1 THEN TRUE ELSE pc[c - 1] # "idle"
  /\ issuedOps < MaxOps
  /\ acquire(c)
  /\ UNCHANGED <<others, aborted, onabort, draining, evictor, nextId, got, prom, work,
                 released, stopVars>>

\* sendTask up to its first await: the pre-check of the signal, then acquire().
sendTask(c) ==
  /\ pc[c] = "idle"
  /\ IF c = 1 THEN TRUE ELSE pc[c - 1] # "idle"
  /\ issuedOps < MaxOps
  /\ IF aborted
     THEN /\ settleEarly(c, "AbortedBeforeAcquire")
          /\ UNCHANGED <<waiting, available, leaseState, creating>>
     ELSE acquire(c)
  /\ UNCHANGED <<others, aborted, onabort, draining, evictor, nextId, got, prom, work,
                 released, stopVars>>

\* Mutant: the re-check throws outside try, so nothing releases the activity.
afterAcquireNoRelease(c) ==
  /\ pc[c] = "acquired"
  /\ IF aborted
     THEN /\ pc' = [pc EXCEPT ![c] = "done"]
          /\ result' = [result EXCEPT ![c] = "AbortedAfterAcquire"]
          /\ UNCHANGED <<onabort, work, released, got, waiting, available, leaseState,
                         creating>>
     ELSE /\ pc' = [pc EXCEPT ![c] = "awaiting"]
          /\ onabort' = c
          /\ work' = [work EXCEPT ![c] = "before"]
          /\ UNCHANGED <<result, released, got, waiting, available, leaseState, creating>>
  /\ UNCHANGED <<others, aborted, draining, evictor, nextId, prom, stopVars>>

\* Mutant: sendTask without the re-check of the signal after acquire().
afterAcquireNoRecheck(c) ==
  /\ pc[c] = "acquired"
  /\ pc' = [pc EXCEPT ![c] = "awaiting"]
  /\ onabort' = c
  /\ work' = [work EXCEPT ![c] = "before"]
  /\ UNCHANGED <<result, released, got, waiting, available, leaseState, creating>>
  /\ UNCHANGED <<others, aborted, draining, evictor, nextId, prom, stopVars>>

\* sendTask resumes with the activity: the re-check, then the executor of the
\* inner promise, which installs onabort and starts ctx.before().  A raised
\* signal throws inside try, so finally releases in the same step.
afterAcquire(c) ==
  /\ pc[c] = "acquired"
  /\ IF aborted
     THEN /\ pc' = [pc EXCEPT ![c] = "done"]
          /\ result' = [result EXCEPT ![c] = "AbortedAfterAcquire"]
          /\ release(c)
          /\ UNCHANGED <<onabort, work>>
     ELSE /\ pc' = [pc EXCEPT ![c] = "awaiting"]
          /\ onabort' = c
          /\ work' = [work EXCEPT ![c] = "before"]
          /\ UNCHANGED <<result, released, got, waiting, available, leaseState, creating>>
  /\ UNCHANGED <<others, aborted, draining, evictor, nextId, prom, stopVars>>

\* Settling the inner promise: only the first resolve/reject counts.
settle(c, v) == [prom EXCEPT ![c] = IF @ = "pending" THEN v ELSE @]

\* The work of call c ends; a call that has returned drops its activity reference.
finishWork(c) ==
  /\ work' = [work EXCEPT ![c] = "finished"]
  /\ got' = [got EXCEPT ![c] = IF pc[c] = "done" THEN 0 ELSE @]

\* ctx.before() resolved: .then(() => task(ctx)) invokes the user task.
beforeDone(c) ==
  /\ work[c] = "before"
  /\ work' = [work EXCEPT ![c] = "task"]
  /\ UNCHANGED <<others, aborted, onabort, poolVars, pc, got, prom, result, released, stopVars>>

\* ctx.before() rejected: .catch((err) => reject(err)).
beforeFail(c) ==
  /\ work[c] = "before"
  /\ finishWork(c)
  /\ prom' = settle(c, "rejTask")
  /\ UNCHANGED <<others, aborted, onabort, poolVars, pc, result, released, stopVars>>

\* task(ctx) resolved: .then((result) => resolve(result)).
taskDone(c) ==
  /\ work[c] = "task"
  /\ finishWork(c)
  /\ prom' = settle(c, "resolved")
  /\ UNCHANGED <<others, aborted, onabort, poolVars, pc, result, released, stopVars>>

\* task(ctx) rejected: .catch((err) => reject(err)).
taskFail(c) ==
  /\ work[c] = "task"
  /\ finishWork(c)
  /\ prom' = settle(c, "rejTask")
  /\ UNCHANGED <<others, aborted, onabort, poolVars, pc, result, released, stopVars>>

\* Mutant: the call returns without releasing its activity.
sendTaskFinallyKeepsLoan(c) ==
  /\ pc[c] = "awaiting"
  /\ prom[c] # "pending"
  /\ pc' = [pc EXCEPT ![c] = "done"]
  /\ result' = [result EXCEPT ![c] = prom[c]]
  /\ UNCHANGED <<others, aborted, onabort, poolVars, got, released, prom, work, stopVars>>

\* Mutant: catch throws a new error that wraps the one it caught.
sendTaskFinallyWrapsError(c) ==
  /\ pc[c] = "awaiting"
  /\ prom[c] # "pending"
  /\ pc' = [pc EXCEPT ![c] = "done"]
  /\ result' = [result EXCEPT ![c] = IF prom[c] = "resolved" THEN "resolved" ELSE "rejWrapped"]
  /\ release(c)
  /\ UNCHANGED <<others, aborted, onabort, draining, evictor, nextId, prom, work, stopVars>>

\* The inner promise settled: catch rethrows, finally releases the activity.
sendTaskFinally(c) ==
  /\ pc[c] = "awaiting"
  /\ prom[c] # "pending"
  /\ pc' = [pc EXCEPT ![c] = "done"]
  /\ result' = [result EXCEPT ![c] = prom[c]]
  /\ release(c)
  /\ UNCHANGED <<others, aborted, onabort, draining, evictor, nextId, prom, work, stopVars>>

\* ---------------------------------------------------- Golem.stop, Golem.abort
\* The teardown stages stop call s has started, and those it saw complete.
attempted(s) ==
  IF spc[s] = "idle" THEN {}
  ELSE IF spc[s] = "done" THEN StageSet
  ELSE {Stages[i] : i \in 1..StageIndex(spc[s])}

ended(s) ==
  IF spc[s] = "idle" THEN {}
  ELSE IF spc[s] = "done" THEN StageSet
  ELSE {Stages[i] : i \in 1..(StageIndex(spc[s]) - 1)}

\* How many times a teardown stage was started, over all stop calls.
teardowns(st) == Cardinality({s \in Stops : st \in attempted(s)})

\* stop() has returned to its caller, resolved or rejected.
settled(s) == spc[s] = "done" \/ failed[s]

\* Mutant: stop() goes on without calling activityPool.drain() first, so the pool
\* is never marked draining.
stopBeginWithoutDrainFlag(s) ==
  /\ spc[s] = "idle"
  /\ IF s = 1 THEN TRUE ELSE spc[s - 1] # "idle"
  /\ issuedOps < MaxOps
  /\ spc' = [spc EXCEPT ![s] = "drain"]
  /\ tail' = [tail EXCEPT ![s] = IF waiting = <<>> THEN 0 ELSE waiting[Len(waiting)]]
  /\ UNCHANGED <<filterVars, hookVars, draining, evictor, leaseState, available, creating,
                 waiting, nextId, pc, got, work, result, released, failed, snap>>

\* stop() up to its first await: activityPool.drain() marks the pool draining and
\* waits for the tail of the waiting queue to settle.
stopBegin(s) ==
  /\ spc[s] = "idle"
  /\ IF s = 1 THEN TRUE ELSE spc[s - 1] # "idle"
  /\ issuedOps < MaxOps
  /\ draining' = TRUE
  /\ spc' = [spc EXCEPT ![s] = "drain"]
  /\ tail' = [tail EXCEPT ![s] = IF waiting = <<>> THEN 0 ELSE waiting[Len(waiting)]]
  /\ UNCHANGED <<filterVars, hookVars, evictor, leaseState, available, creating, waiting,
                 nextId, pc, got, work, result, released, failed, snap>>

\* Mutant: stop() replaces the abortController by a fresh one.
stopRearmingSignal(s) ==
  /\ stopBegin(s)
  /\ aborted' = FALSE
  /\ UNCHANGED <<onabort, prom, abortCalled, initVars>>

stop(s) ==
  /\ stopBegin(s)
  /\ UNCHANGED <<aborted, onabort, prom, abortCalled, initVars>>

\* Mutant: abort() goes into stop() without raising the signal.
abortWithoutSignal(s) ==
  /\ abortCalled' = TRUE
  /\ stopBegin(s)
  /\ UNCHANGED <<aborted, onabort, prom, initVars>>

\* abort(): raise the signal (the first raise fires the one onabort handler),
\* then stop().
abort(s) ==
  /\ aborted' = TRUE
  /\ prom' = IF ~aborted /\ onabort # 0 THEN settle(onabort, "rejAbort") ELSE prom
  /\ abortCalled' = TRUE
  /\ stopBegin(s)
  /\ UNCHANGED <<onabort, initVars>>

\* drain(): every queued request has settled; now wait for the loans of this moment.
drainRequestsSettled(s) ==
  /\ spc[s] = "drain"
  /\ snap[s] = {0}
  /\ IF tail[s] = 0 THEN TRUE ELSE pc[tail[s]] # "waiting"
  /\ snap' = [snap EXCEPT ![s] = {c \in Calls : HoldsLoan(c)}]
  /\ UNCHANGED <<others, aborted, onabort, poolVars, callVars, spc, failed, tail, abortCalled>>

\* Mutant: stop() does not await drain(): it goes on with loans outstanding.
drainLoansNotAwaited(s) ==
  /\ spc[s] = "drain"
  /\ snap[s] # {0}
  /\ evictor' = FALSE
  /\ spc' = [spc EXCEPT ![s] = "marketEnd"]
  /\ snap' = [snap EXCEPT ![s] = {}]
  /\ tail' = [tail EXCEPT ![s] = 0]
  /\ UNCHANGED <<others, aborted, onabort, draining, leaseState, available, creating, waiting,
                 nextId, callVars, failed, abortCalled>>

\* drain(): the loans were returned; the evictor is descheduled, drain() resolves
\* and stop() goes on to marketService.end().
drainLoansReturned(s) ==
  /\ spc[s] = "drain"
  /\ snap[s] # {0}
  /\ \A c \in snap[s] : released[c] > 0
  /\ evictor' = FALSE
  /\ spc' = [spc EXCEPT ![s] = "marketEnd"]
  /\ snap' = [snap EXCEPT ![s] = {}]
  /\ tail' = [tail EXCEPT ![s] = 0]
  /\ UNCHANGED <<others, aborted, onabort, draining, leaseState, available, creating, waiting,
                 nextId, callVars, failed, abortCalled>>

\* The awaited teardown call of stop call s resolved: the next one is started.
stageDone(s) ==
  /\ spc[s] \in StageSet \ {"drain"}
  /\ ~failed[s]
  /\ spc' = [spc EXCEPT ![s] = IF @ = "yagnaEnd" THEN "done"
                                ELSE Stages[StageIndex(@) + 1]]
  /\ UNCHANGED <<others, aborted, onabort, poolVars, callVars, failed, tail, snap, abortCalled>>

\* The awaited teardown call of stop call s rejected: stop() rejects with it.
stageFail(s) ==
  /\ spc[s] \in StageSet \ {"drain"}
  /\ ~failed[s]
  /\ failed' = [failed EXCEPT ![s] = TRUE]
  /\ UNCHANGED <<others, aborted, onabort, poolVars, callVars, spc, tail, snap, abortCalled>>

\* ------------------------------------------------------------ specification
\* new Golem(config): nothing aborted, an empty pool, no call made yet.
GolemConstructed ==
  /\ aborted = FALSE
  /\ onabort = 0
  /\ draining = FALSE
  /\ evictor = TRUE
  /\ leaseState = [l \in Leases |-> "none"]
  /\ available = <<>>
  /\ creating = 0
  /\ waiting = <<>>
  /\ nextId = 1
  /\ pc = [c \in Calls |-> "idle"]
  /\ got = [c \in Calls |-> 0]
  /\ prom = [c \in Calls |-> "pending"]
  /\ work = [c \in Calls |-> "none"]
  /\ result = [c \in Calls |-> "none"]
  /\ released = [c \in Calls |-> 0]
  /\ spc = [s \in Stops |-> "idle"]
  /\ failed = [s \in Stops |-> FALSE]
  /\ tail = [s \in Stops |-> 0]
  /\ snap = [s \in Stops |-> {0}]
  /\ abortCalled = FALSE
  /\ dead = {}
  /\ dpc = [l \in Leases |-> "none"]

\* init() has resolved: start() resolved with its three services running, the
\* component is marked initialized; the startup timer is never cleared.
GolemStarted ==
  /\ ipc = "done"
  /\ initError = "none"
  /\ isInitialized = TRUE
  /\ golemSet = TRUE
  /\ withProviders = config.withProviders
  /\ startPc = "resolved"
  /\ svc = [v \in Services |-> "running"]
  /\ timer = "armed"
  /\ shpc = "idle"
  /\ fetched = "none"
  /\ lastDone = "init"

\* No proposal has been offered to the filter yet.
FilterIdle ==
  /\ config = DefaultConfig
  /\ proposal = NoProposal
  /\ accepted = FALSE

Init == FilterIdle /\ GolemConstructed /\ GolemStarted

Next ==
  \/ \E c \in Calls : sendTask(c)
  \/ \E c \in Calls : afterAcquire(c)
  \/ \E c \in Calls : beforeDone(c)
  \/ \E c \in Calls : beforeFail(c)
  \/ \E c \in Calls : taskDone(c)
  \/ \E c \in Calls : taskFail(c)
  \/ \E c \in Calls : sendTaskFinally(c)
  \/ createDone
  \/ createFail
  \/ \E l \in Leases, ok \in BOOLEAN : validateDone(l, ok)
  \/ acquireTimeout
  \/ \E l \in Leases : evict(l)
  \/ \E s \in Stops : stop(s)
  \/ \E s \in Stops : abort(s)
  \/ \E s \in Stops : drainRequestsSettled(s)
  \/ \E s \in Stops : drainLoansReturned(s)
  \/ \E s \in Stops : stageDone(s)
  \/ \E s \in Stops : stageFail(s)

Spec == Init /\ [][Next]_vars

\* The runs in which nothing goes wrong: every create, validation, ctx.before()
\* and task succeeds, no request times out, nothing is evicted and nobody stops
\* or aborts.  The event loop runs every continuation that is ready, and the
\* marketplace and the tasks answer: weak fairness of the steps.
LiveNext ==
  \/ \E c \in Calls : sendTask(c)
  \/ \E c \in Calls : afterAcquire(c)
  \/ \E c \in Calls : beforeDone(c)
  \/ \E c \in Calls : taskDone(c)
  \/ \E c \in Calls : sendTaskFinally(c)
  \/ createDone
  \/ \E l \in Leases : validateDone(l, validate("Ready"))

LiveSpec == Init /\ [][LiveNext]_vars /\ WF_vars(LiveNext)

\* stop() among calls in flight.  The steps that come by themselves: a call
\* resumes, its work and the pool's hooks settle, a queued request is served or
\* times out, drain() and the stages of stop() resolve ...
StopProgress ==
  \/ \E c \in Calls : afterAcquire(c)
  \/ \E c \in Calls : beforeDone(c)
  \/ \E c \in Calls : taskDone(c)
  \/ \E c \in Calls : sendTaskFinally(c)
  \/ createDone
  \/ \E l \in Leases : validateDone(l, validate("Ready"))
  \/ acquireTimeout
  \/ \E s \in Stops : drainRequestsSettled(s)
  \/ \E s \in Stops : drainLoansReturned(s)
  \/ \E s \in Stops : stageDone(s)

\* ... and those that may or may not happen: a new call, stop(), abort(), a
\* stage of stop() rejecting.
StopNext ==
  \/ StopProgress
  \/ \E c \in Calls : sendTask(c)
  \/ \E s \in Stops : stop(s)
  \/ \E s \in Stops : abort(s)
  \/ \E s \in Stops : stageFail(s)

StopSpec == Init /\ [][StopNext]_vars /\ WF_vars(StopProgress)


\* ------------------------------------- the pool's hooks and its evictor
\* The activity of lease l terminates on the provider's side.
activityDies(l) ==
  /\ leaseState[l] \in {"idle", "testing", "borrowed"}
  /\ l \notin dead
  /\ dead' = dead \cup {l}
  /\ UNCHANGED <<golemVars, initVars, filterVars, dpc>>

\* Validation on borrow of activity l: getState() reports Terminated for a dead
\* activity and another state for a live one, or the call fails.
validateActivity(l) ==
  \E o \in GetStateOutcomes :
    /\ o = "Terminated" <=> l \in dead
    /\ validateDone(l, validate(o))

\* An eviction run (every evictionRunIntervalMillis): the evictor looks at the
\* idle activities and destroys those idle for longer than idleTimeoutMillis, the
\* set S; it does not call validate.
evictionRunDeadOnly(S) ==
  /\ evictor
  /\ S \subseteq InState(leaseState, "idle")
  /\ leaseState' = [l \in Leases |-> IF l \in S \cap dead THEN "destroyed" ELSE leaseState[l]]
  /\ available' = SelectSeq(available, LAMBDA x : x \notin S \cap dead)
  /\ UNCHANGED <<others, aborted, onabort, draining, evictor, creating, waiting, nextId,
                 callVars, stopVars>>

evictionRun(S) ==
  /\ evictor
  /\ S \subseteq InState(leaseState, "idle")
  /\ leaseState' = [l \in Leases |-> IF l \in S THEN "destroyed" ELSE leaseState[l]]
  /\ available' = SelectSeq(available, LAMBDA x : x \notin S)
  /\ UNCHANGED <<others, aborted, onabort, draining, evictor, creating, waiting, nextId,
                 callVars, stopVars>>

\* The destroy hook of activity l: await activity.stop() settled.  A rejection
\* leaves the hook, as nothing catches it: releaseAgreement is not called.
destroyStop(l, ok) ==
  /\ leaseState[l] = "destroyed"
  /\ dpc[l] = "none"
  /\ dpc' = [dpc EXCEPT ![l] = IF ok THEN "release" ELSE "rejectedStop"]
  /\ UNCHANGED <<golemVars, initVars, filterVars, dead>>

\* The destroy hook of activity l: await agreementService.releaseAgreement() settled.
destroyRelease(l, ok) ==
  /\ dpc[l] = "release"
  /\ dpc' = [dpc EXCEPT ![l] = IF ok THEN "resolved" ELSE "rejectedRelease"]
  /\ UNCHANGED <<golemVars, initVars, filterVars, dead>>

\* The pool at work with nobody stopping it: the steps that are taken whenever
\* they can be (event loop, marketplace, tasks, timers) ...
PoolProgress ==
  \/ \E c \in Calls : afterAcquire(c)
  \/ \E c \in Calls : beforeDone(c)
  \/ \E c \in Calls : taskDone(c)
  \/ \E c \in Calls : sendTaskFinally(c)
  \/ createDone
  \/ \E l \in Leases : validateActivity(l)
  \/ \E S \in SUBSET Leases : evictionRun(S)
  \/ \E l \in Leases, ok \in BOOLEAN : destroyStop(l, ok)
  \/ \E l \in Leases, ok \in BOOLEAN : destroyRelease(l, ok)

\* ... and those that may or may not happen: a new request, an activity dying.
PoolNext ==
  \/ PoolProgress
  \/ \E c \in Calls : sendTask(c)
  \/ \E l \in Leases : activityDies(l)

PoolSpec == Init /\ [][PoolNext]_vars /\ WF_vars(PoolProgress)

\* The pool left to scale down: the same steps without the destroy hook's own,
\* which no longer touch the pool.
ScaleDownProgress ==
  \/ \E c \in Calls : afterAcquire(c)
  \/ \E c \in Calls : beforeDone(c)
  \/ \E c \in Calls : taskDone(c)
  \/ \E c \in Calls : sendTaskFinally(c)
  \/ createDone
  \/ \E l \in Leases : validateActivity(l)
  \/ \E S \in SUBSET Leases : evictionRun(S)

ScaleDownNext ==
  \/ ScaleDownProgress
  \/ \E c \in Calls : sendTask(c)
  \/ \E l \in Leases : activityDies(l)

ScaleDownSpec == Init /\ [][ScaleDownNext]_vars /\ WF_vars(ScaleDownProgress)


\* ------------------- the single-activity Golem: sendTask under an AsyncLock
\* The earlier Golem holds one activity, created by start(), and runs the tasks
\* on it one at a time under lock.acquire("activity-<id>", ...).  Here activity 1
\* is this.activity (leaseState "none": not created yet, "idle": created), pc,
\* work and result are the calls' as above, and waiting is the queue of the lock.

\* start() resolved: this.activity = await Activity.create(...).
singleStart ==
  /\ leaseState[1] = "none"
  /\ leaseState' = [leaseState EXCEPT ![1] = "idle"]
  /\ UNCHANGED <<others, aborted, onabort, draining, evictor, available, creating, waiting,
                 nextId, callVars, stopVars>>

\* The lock is held: a critical section is running.
locked == \E c \in Calls : work[c] \in {"before", "task"}

\* Mutant: lock.acquire() runs the critical section at once, held or not.
lockAcquireWithoutQueue(c) ==
  /\ pc' = [pc EXCEPT ![c] = "awaiting"]
  /\ work' = [work EXCEPT ![c] = "before"]
  /\ UNCHANGED waiting

\* lock.acquire(key, crit, cb): a free lock runs crit() at once, up to its first
\* await, ctx.before(); a held one queues it.
lockAcquire(c) ==
  IF locked
  THEN /\ pc' = [pc EXCEPT ![c] = "waiting"]
       /\ waiting' = Append(waiting, c)
       /\ UNCHANGED work
  ELSE /\ pc' = [pc EXCEPT ![c] = "awaiting"]
       /\ work' = [work EXCEPT ![c] = "before"]
       /\ UNCHANGED waiting

\* sendTask(task) of the single-activity Golem: without an activity it logs and
\* returns undefined; else it runs crit exclusively on the activity.
lockedSendTask(c) ==
  /\ pc[c] = "idle"
  /\ IF leaseState[1] = "none"
     THEN /\ settleEarly(c, "NoActivity")
          /\ UNCHANGED <<waiting, work>>
     ELSE /\ lockAcquire(c)
          /\ UNCHANGED result
  /\ UNCHANGED <<others, aborted, onabort, draining, evictor, leaseState, available, creating,
                 nextId, got, prom, released, stopVars>>

\* crit: ctx.before() resolved, task(ctx) is invoked.
critBeforeDone(c) ==
  /\ pc[c] = "awaiting" /\ work[c] = "before"
  /\ work' = [work EXCEPT ![c] = "task"]
  /\ UNCHANGED <<others, aborted, onabort, poolVars, pc, got, prom, result, released, stopVars>>

\* Mutant: the lock is released but the next critical section is not started.
critSettlesNoHandover(c, r) ==
  /\ pc' = [pc EXCEPT ![c] = "done"]
  /\ result' = [result EXCEPT ![c] = r]
  /\ work' = [work EXCEPT ![c] = "finished"]
  /\ UNCHANGED waiting
  /\ UNCHANGED <<others, aborted, onabort, draining, evictor, leaseState, available, creating,
                 nextId, got, prom, released, stopVars>>

\* crit settled: the lock calls cb(err, res), which settles the call, then takes
\* the next critical section off its queue and runs it.
critSettles(c, r) ==
  /\ IF waiting = <<>>
     THEN /\ pc' = [pc EXCEPT ![c] = "done"]
          /\ work' = [work EXCEPT ![c] = "finished"]
          /\ UNCHANGED waiting
     ELSE /\ pc' = [pc EXCEPT ![c] = "done", ![Head(waiting)] = "awaiting"]
          /\ work' = [work EXCEPT ![c] = "finished", ![Head(waiting)] = "before"]
          /\ waiting' = Tail(waiting)
  /\ result' = [result EXCEPT ![c] = r]
  /\ UNCHANGED <<others, aborted, onabort, draining, evictor, leaseState, available, creating,
                 nextId, got, prom, released, stopVars>>

\* crit: ctx.before() rejected.
critBeforeFail(c) ==
  /\ pc[c] = "awaiting" /\ work[c] = "before"
  /\ critSettles(c, "rejTask")

\* crit: task(ctx) resolved.
critTaskDone(c) ==
  /\ pc[c] = "awaiting" /\ work[c] = "task"
  /\ critSettles(c, "resolved")

\* crit: task(ctx) rejected.
critTaskFail(c) ==
  /\ pc[c] = "awaiting" /\ work[c] = "task"
  /\ critSettles(c, "rejTask")

\* The steps that come by themselves, when the work settles ...
LockProgress ==
  \/ \E c \in Calls : critBeforeDone(c)
  \/ \E c \in Calls : critTaskDone(c)

\* ... and those that may or may not happen.
LockNext ==
  \/ LockProgress
  \/ singleStart
  \/ \E c \in Calls : lockedSendTask(c)
  \/ \E c \in Calls : critBeforeFail(c)
  \/ \E c \in Calls : critTaskFail(c)

LockSpec == Init /\ [][LockNext]_vars /\ WF_vars(LockProgress)

\* ------------------------------- TesseractOcrOnGolem.init, Golem.start
\* Provider ids the recommended-provider endpoint may list.
Providers == {"A", "B"}

\* The pool option min; buildActivityPool passes none, so the pool's default.
poolMin == 0

\* Pool._ensureMinimum(), run when the pool is constructed: the creations started
\* to bring the pool up to min.
ensureMinimum(ls, cr) == Max0(poolMin - (allObjectsSize(ls) + cr))

\* Promise.race([golem.start(), timeout()]) is settled by whichever comes first;
\* a later settlement of the other promise changes nothing in init().
raceSettles(how) ==
  IF ipc # "racing" THEN UNCHANGED <<ipc, initError, isInitialized, lastDone>>
  ELSE IF how = "resolved"
  THEN ipc' = "done" /\ isInitialized' = TRUE /\ lastDone' = "init" /\ UNCHANGED initError
  ELSE ipc' = "failed" /\ initError' = how /\ UNCHANGED <<isInitialized, lastDone>>

\* init() from new Golem(golemConfig) to the await of the race: the constructor
\* builds the pool, start() calls createAllocation, the timeout timer is armed.
startGolem ==
  /\ golemSet' = TRUE
  /\ creating' = creating + ensureMinimum(leaseState, creating)
  /\ startPc' = "allocating"
  /\ timer' = "armed"
  /\ ipc' = "racing"
  /\ UNCHANGED <<initError, isInitialized, svc, shpc, lastDone>>
  /\ UNCHANGED <<aborted, onabort, draining, evictor, leaseState, available, waiting,
                 nextId, callVars, stopVars, proposal, accepted, hookVars>>

\* init() up to its first await: with no whitelist configured it fetches one.
init ==
  /\ ipc = "idle"
  /\ IF withProviders = Undefined
     THEN /\ ipc' = "fetching"
          /\ UNCHANGED <<golemVars, hookVars, initError, isInitialized, golemSet, withProviders,
                         fetched,
                         shpc, lastDone,
                         startPc, svc, timer, filterVars>>
     ELSE /\ startGolem
          /\ UNCHANGED <<withProviders, fetched, config>>

\* Mutant: init() rejects when the list could not be fetched.
fetchDoneFailsInit(outcome, data) ==
  /\ ipc = "fetching"
  /\ outcome # "ok"
  /\ ipc' = "failed"
  /\ initError' = "startError"
  /\ fetched' = "fallback"
  /\ UNCHANGED <<golemVars, hookVars, filterVars, isInitialized, golemSet, withProviders,
                 startPc, svc, timer, shpc, lastDone>>

\* fetchRecommendedProviders() returned: the list on an OK response holding an
\* array, the empty fallback list otherwise; init() goes on.
fetchDone(outcome, data) ==
  /\ ipc = "fetching"
  /\ withProviders' = IF outcome = "ok" THEN Whitelist(data) ELSE Whitelist({})
  /\ config' = [config EXCEPT !.withProviders = withProviders']
  /\ fetched' = IF outcome = "ok" THEN "data" ELSE "fallback"
  /\ startGolem

\* paymentService.createAllocation() resolved: start() runs the three services.
allocationDone ==
  /\ startPc = "allocating"
  /\ startPc' = "services"
  /\ svc' = [v \in Services |-> "starting"]
  /\ UNCHANGED <<golemVars, hookVars, ipc, initError, isInitialized, golemSet, withProviders,
                 fetched, timer,
                 shpc, lastDone,
                 filterVars>>

\* paymentService.createAllocation() rejected: start() rejects.
allocationFail ==
  /\ startPc = "allocating"
  /\ startPc' = "rejected"
  /\ raceSettles("startError")
  /\ UNCHANGED <<golemVars, hookVars, golemSet, withProviders, fetched, svc, timer, shpc, filterVars>>

\* run() of service v resolved: the service is running; Promise.all resolves
\* with the last of the three.
serviceRunning(v) ==
  /\ svc[v] = "starting"
  /\ svc' = [svc EXCEPT ![v] = "running"]
  /\ IF startPc = "services" /\ \A u \in Services \ {v} : svc[u] = "running"
     THEN startPc' = "resolved" /\ raceSettles("resolved")
     ELSE UNCHANGED <<startPc, ipc, initError, isInitialized, lastDone>>
  /\ UNCHANGED <<golemVars, hookVars, golemSet, withProviders, fetched, timer, shpc, filterVars>>

\* run() of service v rejected: Promise.all rejects with the first rejection,
\* the other services are left as they are.
serviceFail(v) ==
  /\ svc[v] = "starting"
  /\ svc' = [svc EXCEPT ![v] = "failed"]
  /\ IF startPc = "services"
     THEN startPc' = "rejected" /\ raceSettles("startError")
     ELSE UNCHANGED <<startPc, ipc, initError, isInitialized, lastDone>>
  /\ UNCHANGED <<golemVars, hookVars, golemSet, withProviders, fetched, timer, shpc, filterVars>>

\* initTimeoutSec elapsed: the timeout promise rejects.
initTimeout ==
  /\ timer = "armed"
  /\ timer' = "fired"
  /\ raceSettles("timeout")
  /\ UNCHANGED <<golemVars, hookVars, golemSet, withProviders, fetched, startPc, svc, shpc,
                 filterVars>>

\* new TesseractOcrOnGolem(config): with or without a whitelist in the config,
\* and with any maxReplicas, as the constructor takes what it is given.
InitStart ==
  /\ withProviders \in {Undefined} \cup {Whitelist(ids) : ids \in SUBSET Providers}
  /\ config \in {[DefaultConfig EXCEPT !.withProviders = withProviders, !.maxReplicas = n] :
                   n \in 0..MaxReplicas}
  /\ proposal = NoProposal
  /\ accepted = FALSE
  /\ GolemConstructed
  /\ ipc = "idle"
  /\ initError = "none"
  /\ isInitialized = FALSE
  /\ golemSet = FALSE
  /\ startPc = "none"
  /\ svc = [v \in Services |-> "off"]
  /\ timer = "unset"
  /\ shpc = "idle"
  /\ fetched = "none"
  /\ lastDone = "none"

InitNext ==
  \/ init
  \/ \E outcome \in {"ok", "notOk", "notArray", "error"}, data \in SUBSET Providers :
       fetchDone(outcome, data)
  \/ allocationDone
  \/ allocationFail
  \/ \E v \in Services : serviceRunning(v)
  \/ \E v \in Services : serviceFail(v)
  \/ initTimeout

InitSpec == InitStart /\ [][InitNext]_vars

\* ---------------- TesseractOcrOnGolem.convertImageToText, TesseractOcrOnGolem.shutdown
\* The stop() call a shutdown() in progress awaits: the last one begun.
awaitedStop == CHOOSE s \in Stops : spc[s] # "idle" /\ \A u \in Stops : spc[u] # "idle" => u <= s

\* convertImageToText(sourcePath): the not-initialized guard, the check that the
\* file exists, then golem.sendTask(...).
convertImageToText(c, exists) ==
  IF ~isInitialized \/ ~golemSet
  THEN /\ pc[c] = "idle"
       /\ IF c = 1 THEN TRUE ELSE pc[c - 1] # "idle"
       /\ settleEarly(c, "NotInitialized")
       /\ UNCHANGED <<others, aborted, onabort, poolVars, got, prom, work, released, stopVars>>
  ELSE IF ~exists
  THEN /\ pc[c] = "idle"
       /\ IF c = 1 THEN TRUE ELSE pc[c - 1] # "idle"
       /\ settleEarly(c, "FileMissing")
       /\ UNCHANGED <<others, aborted, onabort, poolVars, got, prom, work, released, stopVars>>
  ELSE sendTask(c)

\* shutdown() up to its await: golem?.stop() runs stop() to its first await, or
\* yields undefined while no Golem has been built.
shutdown(s) ==
  /\ shpc \in {"idle", "done", "failed"}
  /\ IF golemSet
     THEN /\ stopBegin(s)
          /\ shpc' = "stopping"
          /\ UNCHANGED <<aborted, onabort, prom, abortCalled, ipc, initError, isInitialized,
                         golemSet, withProviders, fetched, startPc, svc, timer, lastDone>>
     ELSE /\ s = 1
          /\ shpc' = "noGolem"
          /\ UNCHANGED <<golemVars, ipc, initError, isInitialized, golemSet, withProviders, fetched,
                         startPc, svc, timer, lastDone, filterVars, hookVars>>

\* Mutant: shutdown() resolves without clearing isInitialized.
shutdownSettlesKeepsFlag ==
  /\ \/ shpc = "noGolem"
     \/ shpc = "stopping" /\ spc[awaitedStop] = "done"
  /\ shpc' = "done"
  /\ lastDone' = "shutdown"
  /\ UNCHANGED <<golemVars, ipc, initError, isInitialized, golemSet, withProviders, fetched, startPc,
                 svc, timer, filterVars, hookVars>>

\* shutdown() after its await: once stop() has resolved isInitialized is cleared
\* and shutdown() resolves; a rejection of stop() rejects shutdown() there.
shutdownSettles ==
  \/ /\ \/ shpc = "noGolem"
        \/ shpc = "stopping" /\ spc[awaitedStop] = "done"
     /\ isInitialized' = FALSE
     /\ shpc' = "done"
     /\ lastDone' = "shutdown"
     /\ UNCHANGED <<golemVars, ipc, initError, golemSet, withProviders, fetched, startPc, svc, timer,
                    filterVars, hookVars>>
  \/ /\ shpc = "stopping" /\ failed[awaitedStop]
     /\ shpc' = "failed"
     /\ UNCHANGED <<golemVars, ipc, initError, isInitialized, golemSet, withProviders, fetched, startPc,
                    svc, timer, lastDone, filterVars, hookVars>>

\* new TesseractOcrOnGolem(config) with no whitelist in the config.
WrapperStart ==
  /\ InitStart
  /\ withProviders = Undefined
  /\ config.maxReplicas = MaxReplicas

WrapperNext ==
  \/ init
  \/ \E outcome \in {"error"} : fetchDone(outcome, {})
  \/ allocationDone
  \/ allocationFail
  \/ \E v \in Services : serviceRunning(v)
  \/ \E v \in Services : serviceFail(v)
  \/ initTimeout
  \/ \E c \in Calls, exists \in BOOLEAN : convertImageToText(c, exists)
  \/ \E s \in Stops : shutdown(s)
  \/ shutdownSettles
  \/ \E s \in Stops : drainRequestsSettled(s)
  \/ \E s \in Stops : drainLoansReturned(s)
  \/ \E s \in Stops : stageDone(s)
  \/ \E s \in Stops : stageFail(s)
  \/ \E c \in Calls : afterAcquire(c)
  \/ \E c \in Calls : beforeDone(c)
  \/ \E c \in Calls : taskDone(c)
  \/ \E c \in Calls : sendTaskFinally(c)
  \/ createDone
  \/ \E l \in Leases : validateDone(l, validate("Ready"))

WrapperSpec == WrapperStart /\ [][WrapperNext]_vars


\* ------------------------------------------- Golem.buildProposalFilter
\* Amounts of GLM are integers of a unit small enough for per-second prices.
SecondsPerHour == 60 * 60

MaxRentHours == 2       \* config.market.rentHours
MaxPricePerSec == 2     \* config.market.priceGlmPerHour, per second of the hour
MaxMinCpu == 2          \* config.deploy.resources.minCpu, 0 when left out
MaxThreads == 2         \* golem.inf.cpu.threads of a proposal
MaxStartPrice == 1      \* pricing.start of a proposal

\* Provider ids proposals come from: "A" is on some whitelists, "C" on none.
ProposalProviders == {"A", "C"}

\* pricing.cpuSec and pricing.envSec of a proposal: free, or one unit a second.
PerSecondPrices == {0, 1}

Configs ==
  [withProviders : {Undefined} \cup {Whitelist(ids) : ids \in SUBSET Providers},
   rentHours : 1..MaxRentHours,
   priceGlmPerHour : {p * SecondsPerHour : p \in 1..MaxPricePerSec},
   minCpu : 0..MaxMinCpu,
   maxReplicas : 0..MaxReplicas]

Proposals ==
  [provider : ProposalProviders, start : 0..MaxStartPrice, cpuSec : PerSecondPrices,
   envSec : PerSecondPrices, threads : 1..MaxThreads]

getExpectedDurationSeconds(cfg) == cfg.rentHours * 60 * 60

\* Mutant: the budget does not scale with minCpu.
getBudgetEstimateOneThread(cfg) ==
  cfg.rentHours * cfg.priceGlmPerHour * cfg.maxReplicas

\* minCpu || 1: a minCpu left out, or 0, counts as 1.
getBudgetEstimate(cfg) ==
  cfg.rentHours * cfg.priceGlmPerHour * (IF cfg.minCpu = 0 THEN 1 ELSE cfg.minCpu)
    * cfg.maxReplicas

estimateProposal(cfg, p) ==
  p.start + p.cpuSec * p.threads * getExpectedDurationSeconds(cfg)
    + p.envSec * getExpectedDurationSeconds(cfg)

\* Mutant: the comparison is strict.
belowQuotient(e, num, den) == IF den = 0 THEN FALSE ELSE e * den < num

\* e <= num / den in JavaScript numbers: 0 / 0 is NaN, and nothing is <= NaN.
atMostQuotient(e, num, den) == IF den = 0 THEN FALSE ELSE e * den <= num

\* Mutant: the filter built without the whitelist check.
buildProposalFilterNoWhitelist(cfg, p) ==
  atMostQuotient(estimateProposal(cfg, p), getBudgetEstimate(cfg), cfg.maxReplicas)

\* Mutant: the filter compares the estimate with the budget of all replicas.
buildProposalFilterTotalBudget(cfg, p) ==
  IF /\ cfg.withProviders.defined
     /\ cfg.withProviders.ids # {}
     /\ p.provider \notin cfg.withProviders.ids
  THEN FALSE
  ELSE estimateProposal(cfg, p) <= getBudgetEstimate(cfg)

\* The filter buildProposalFilter returns, applied to proposal p.
buildProposalFilter(cfg, p) ==
  IF /\ cfg.withProviders.defined
     /\ cfg.withProviders.ids # {}
     /\ p.provider \notin cfg.withProviders.ids
  THEN FALSE
  ELSE atMostQuotient(estimateProposal(cfg, p), getBudgetEstimate(cfg), cfg.maxReplicas)

\* Mutant: the filter remembers its last decision and accepts one proposal only
\* after a rejected one.
offerProposalRemembering(p) ==
  /\ proposal' = p
  /\ accepted' = (buildProposalFilter(config, p) /\ ~accepted)
  /\ UNCHANGED <<golemVars, hookVars, initVars, config>>

\* The market service offers proposal p to the filter.
offerProposal(p) ==
  /\ proposal' = p
  /\ accepted' = buildProposalFilter(config, p)
  /\ UNCHANGED <<golemVars, hookVars, initVars, config>>

\* A Golem constructed from any configuration, and started.
FilterInit ==
  /\ config \in Configs
  /\ GolemConstructed
  /\ GolemStarted
  /\ proposal = NoProposal
  /\ accepted = FALSE

FilterNext == \E p \in Proposals : offerProposal(p)

FilterSpec == FilterInit /\ [][FilterNext]_vars


\* ------------------------------------------------------------------ claims
\* Results of a call that held an activity, and of one that never did.
LeaseResults == {"AbortedAfterAcquire", "resolved", "rejTask", "rejAbort"}

NoLeaseResults == {"AbortedBeforeAcquire", "PoolDraining", "AcquireTimeout"}

issuedCalls == Cardinality({c \in Calls : pc[c] # "idle"})

\* C1: under every interleaving of sendTask calls, also with more calls than
\* maxReplicas, the live leases (being created, idle, under validation on borrow
\* or borrowed) never exceed maxReplicas.
C1_PoolWithinMaxReplicas == creating + allObjectsSize(leaseState) <= MaxReplicas

\* More calls than maxReplicas were issued, the pool is full and a call waits.
C1_Witness ==
  /\ issuedCalls > MaxReplicas
  /\ creating + allObjectsSize(leaseState) = MaxReplicas
  /\ waiting # <<>>

\* C2: a call that acquired an activity releases it exactly once, on every exit
\* path (success, task error, cancellation after acquisition or while the task
\* runs); a call that acquired none releases nothing; while it holds the loan it
\* has not released; the borrowed activities are exactly the outstanding loans.
C2_ReleasedExactlyOnce ==
  /\ \A c \in Calls :
       /\ released[c] <= 1
       /\ HoldsLoan(c) => released[c] = 0 /\ leaseState[got[c]] = "borrowed"
       /\ pc[c] = "done" /\ result[c] \in LeaseResults => released[c] = 1
       /\ pc[c] = "done" /\ result[c] \in NoLeaseResults => released[c] = 0
  /\ Cardinality(InState(leaseState, "borrowed")) = Cardinality({c \in Calls : HoldsLoan(c)})

\* Both cancellation paths were taken and released: one call was rejected while
\* its task ran, another found the signal raised after acquisition.
C2_Witness ==
  \E c, d \in Calls :
    /\ result[c] = "rejAbort" /\ released[c] = 1
    /\ result[d] = "AbortedAfterAcquire" /\ released[d] = 1

\* C3 (as claimed): when abort() raises the signal, every call in flight at that
\* moment (awaiting its task on an activity) is rejected with the abort error.
C3_AbortRejectsEveryInFlightCall ==
  [][(~aborted /\ aborted') =>
       \A c \in Calls : (pc[c] = "awaiting" /\ prom[c] = "pending") => prom'[c] = "rejAbort"]_vars

\* C4: a sendTask call issued with the signal already raised fails at once with
\* the abort error and leaves the pool untouched: no activity acquired, no
\* creation started, the lease and waiter counts unchanged.
C4_PreCheckLeavesPoolUntouched ==
  [][\A c \in Calls :
       (pc[c] = "idle" /\ pc'[c] # "idle" /\ aborted) =>
         /\ pc'[c] = "done"
         /\ result'[c] = "AbortedBeforeAcquire"
         /\ got'[c] = 0
         /\ poolVars' = poolVars]_vars

C4_Witness == \E c \in Calls : result[c] = "AbortedBeforeAcquire"

\* C5: a call that obtains its activity with the signal raised (the signal was
\* raised between its pre-check and the end of the acquisition) releases the
\* activity and fails with the abort error in its next step, and its user task is
\* never invoked.
C5_RecheckAfterAcquire ==
  /\ [][\A c \in Calls :
          (pc[c] = "acquired" /\ aborted /\ pc'[c] # "acquired") =>
            /\ pc'[c] = "done"
            /\ result'[c] = "AbortedAfterAcquire"
            /\ released'[c] = 1
            /\ leaseState'[got[c]] # "borrowed"
            /\ work'[c] = "none"]_vars
  /\ [](\A c \in Calls : result[c] = "AbortedAfterAcquire" => work[c] = "none" /\ prom[c] = "pending")

C5_Witness == \E c \in Calls : pc[c] = "done" /\ result[c] = "AbortedAfterAcquire"

\* C6 (as claimed): a second stop() performs no additional teardown action: no
\* teardown stage (drain, service end, storage close, disconnect) is started twice.
C6_StopIsIdempotent == \A st \in StageSet : teardowns(st) <= 1

\* C7: stop() is ordered.  No core service is ended and no disconnect is started
\* while an activity is borrowed or a request is queued; and every stop call moves
\* through drain, marketEnd, agreementEnd, paymentEnd, storageClose, yagnaEnd in
\* this order, starting a stage only when the one before has completed.
C7_StopIsOrdered ==
  /\ [](\A s \in Stops :
         spc[s] \notin {"idle", "drain"} =>
           /\ \A c \in Calls : ~HoldsLoan(c) /\ pc[c] # "waiting"
           /\ InState(leaseState, "borrowed") = {})
  /\ [][\A s \in Stops :
          spc'[s] # spc[s] =>
            \/ spc[s] = "idle" /\ spc'[s] = "drain"
            \/ /\ spc[s] \in StageSet
               /\ ~failed[s]
               /\ StageIndex(spc[s]) < Len(Stages)
               /\ spc'[s] = Stages[StageIndex(spc[s]) + 1]
            \/ spc[s] = "yagnaEnd" /\ ~failed[s] /\ spc'[s] = "done"]_vars

\* A stop call entered while a call was in flight (abort() rejected that call) has
\* waited for the activity to come back and has gone through to the end.
C7_Witness ==
  \E s \in Stops : spc[s] = "done" /\ \E c \in Calls : result[c] = "rejAbort"

\* C8 (as claimed): when stop() completes, every activity the pool created has
\* been handed to the destroy hook: none is left idle or borrowed.
C8_StopDestroysEveryLease ==
  \A s \in Stops : spc[s] = "done" => \A l \in Leases : leaseState[l] \in {"none", "destroyed"}

\* C9: once stop() has begun, a newly issued sendTask call is not accepted: it
\* settles at once, never holds an activity and never has its task invoked, also
\* when the signal is not raised.
C9_NoIntakeAfterStop ==
  /\ [][\A c \in Calls :
          (pc[c] = "idle" /\ pc'[c] # "idle" /\ StopBegun) =>
            /\ pc'[c] = "done"
            /\ result'[c] \in {"PoolDraining", "AbortedBeforeAcquire"}
            /\ poolVars' = poolVars]_vars
  /\ [](\A c \in Calls :
          result[c] \in {"PoolDraining", "AbortedBeforeAcquire"} =>
            pc[c] = "done" /\ got[c] = 0 /\ work[c] = "none" /\ released[c] = 0)

\* A call was turned away by the draining pool with the signal not raised.
C9_Witness == \E c \in Calls : result[c] = "PoolDraining" /\ ~aborted

\* C10 (as claimed): teardown is best-effort: a stop() that has settled, resolved
\* or rejected, has attempted every stage.
C10_TeardownIsBestEffort == \A s \in Stops : settled(s) => attempted(s) = StageSet

\* C11: abort() raises the signal before its stop() begins: from the step in
\* which abort() is called on, the signal is raised, so the drain of the pool it
\* starts, and every later teardown stage, runs with the signal raised.
C11_AbortRaisesBeforeTeardown ==
  abortCalled => aborted /\ draining /\ \E s \in Stops : spc[s] # "idle"

C11_Witness ==
  /\ abortCalled /\ aborted
  /\ \E s \in Stops : /\ spc[s] = "drain" /\ snap[s] = {0}
                       /\ \A r \in Stops \ {s} : spc[r] = "idle"

\* C12: the signal is one-shot and monotonic: no step of any operation lowers a
\* raised signal.
C12_SignalStaysRaised == [][aborted => aborted']_vars

\* The signal outlived later operations: a second stop()/abort() was made and a
\* later sendTask was turned away by the pre-check.
C12_Witness ==
  /\ aborted
  /\ \A s \in Stops : spc[s] # "idle"
  /\ \E c \in Calls : result[c] = "AbortedBeforeAcquire"

C15_EveryWaitingCallIsServed ==
  /\ [](Cardinality(InState(leaseState, "borrowed")) <= MaxReplicas)
  /\ \A c \in Calls : (pc[c] = "waiting") ~> (pc[c] = "acquired")
  /\ \A c \in Calls : (pc[c] # "idle") ~> (pc[c] = "done" /\ result[c] = "resolved")

\* The third call waits while the two activities are on loan to the other two.
C15_Witness ==
  /\ MaxReplicas = 2
  /\ pc[3] = "waiting"
  /\ \A c \in {1, 2} : HoldsLoan(c)
  /\ Cardinality(InState(leaseState, "borrowed")) = MaxReplicas

\* C16: concurrent calls each borrow their own activity: no activity is on loan
\* to two calls at once, and a call that holds a loan holds a borrowed activity.
C16_NoLeaseSharedByTwoCalls ==
  /\ \A c \in Calls : HoldsLoan(c) => got[c] \in Leases /\ leaseState[got[c]] = "borrowed"
  /\ \A c, d \in Calls : c # d /\ HoldsLoan(c) /\ HoldsLoan(d) => got[c] # got[d]

\* Two calls hold loans at once while a third has already returned its own.
C16_Witness ==
  \E c, d, e \in Calls :
    /\ c # d /\ e \notin {c, d}
    /\ HoldsLoan(c) /\ HoldsLoan(d)
    /\ pc[e] = "done" /\ released[e] = 1

\* C17: a call whose task failed (the chain ctx.before().then(task) rejected the
\* inner promise) rejects with that very error, and by then it has released its
\* activity, once, and holds none.
C17_TaskErrorRethrownAfterRelease ==
  \A c \in Calls :
    pc[c] = "done" /\ prom[c] = "rejTask" =>
      /\ result[c] = "rejTask"
      /\ released[c] = 1
      /\ got[c] = 0
      /\ \A l \in InState(leaseState, "borrowed") : \E d \in Calls \ {c} : got[d] = l

\* A task failed, its call rejected, and the activity it used is on loan again.
C17_Witness ==
  \E c, d \in Calls :
    /\ c # d
    /\ pc[c] = "done" /\ result[c] = "rejTask" /\ released[c] = 1
    /\ HoldsLoan(d)

\* The calls whose acquire() timed out.
timedOut(res) == {c \in Calls : res[c] = "AcquireTimeout"}

\* C18: an acquisition timeout is local to its call.  The call that timed out is
\* over, holds no activity, never releases one and is no longer queued; and the
\* step that times it out changes nothing of the pool's activities and nothing
\* of any other call.
C18_AcquireTimeoutIsLocal ==
  /\ [](\A c \in timedOut(result) :
          /\ pc[c] = "done" /\ got[c] = 0 /\ released[c] = 0 /\ prom[c] = "pending"
          /\ \A i \in 1..Len(waiting) : waiting[i] # c)
  /\ [][timedOut(result') # timedOut(result) =>
          /\ leaseState' = leaseState /\ available' = available /\ creating' = creating
          /\ draining' = draining /\ evictor' = evictor
          /\ \A d \in Calls \ timedOut(result') :
               /\ pc'[d] = pc[d] /\ got'[d] = got[d] /\ result'[d] = result[d]
               /\ released'[d] = released[d]
          /\ creating + Cardinality(InState(leaseState, "idle"))
               + Cardinality(InState(leaseState, "testing"))
               + Cardinality(InState(leaseState, "borrowed")) <= MaxReplicas]_vars

\* After one call timed out, a call made later was still served and completed,
\* and another call holds an activity.
C18_Witness ==
  \E c, d, e \in Calls :
    /\ c < d /\ e \notin {c, d}
    /\ result[c] = "AcquireTimeout"
    /\ result[d] = "resolved"
    /\ HoldsLoan(e)

\* C19: with a non-empty whitelist configured, the filter rejects every proposal
\* of a provider that is not on it, whatever the proposal costs and offers.
C19_WhitelistRejectsOutsiders ==
  /\ proposal # NoProposal
  /\ config.withProviders.defined
  /\ config.withProviders.ids # {}
  /\ proposal.provider \notin config.withProviders.ids
  => ~accepted

\* A proposal that costs nothing, from a provider off the whitelist, was rejected,
\* under a budget that would have covered it.
C19_Witness ==
  /\ config.withProviders.ids # {}
  /\ proposal.provider \in ProposalProviders \ config.withProviders.ids
  /\ estimateProposal(config, proposal) = 0
  /\ getBudgetEstimate(config) > 0
  /\ ~accepted

\* budget.perReplica: the budget of one replica for the rent duration.
perReplica(cfg) ==
  cfg.rentHours * cfg.priceGlmPerHour * (IF cfg.minCpu = 0 THEN 1 ELSE cfg.minCpu)

\* C20: the filter rejects every proposal whose estimated cost for the rent
\* duration exceeds the budget of one replica, whoever offers it.
C20_OverBudgetRejected ==
  /\ proposal # NoProposal
  /\ estimateProposal(config, proposal) > perReplica(config)
  => ~accepted

\* A proposal of a whitelisted provider was rejected for its cost alone: above one
\* replica's budget, within the budget of all replicas.
C20_Witness ==
  /\ proposal # NoProposal
  /\ proposal.provider \in config.withProviders.ids
  /\ estimateProposal(config, proposal) > perReplica(config)
  /\ estimateProposal(config, proposal) <= getBudgetEstimate(config)
  /\ ~accepted

\* C21: the filter enforces the thread bounds: with a minimum of threads
\* configured, a proposal that offers fewer threads is rejected.
C21_ThreadBoundsEnforced ==
  /\ proposal # NoProposal
  /\ config.minCpu > 0
  /\ proposal.threads < config.minCpu
  => ~accepted

\* The provider of proposal p passes the whitelist of cfg: none or an empty one
\* is configured, or the provider is on it.
onWhitelist(cfg, p) ==
  \/ ~cfg.withProviders.defined
  \/ cfg.withProviders.ids = {}
  \/ p.provider \in cfg.withProviders.ids

\* C22: under a valid configuration (maxReplicas >= 1) the filter accepts every
\* proposal that passes the three checks: provider on the whitelist or no
\* whitelist, estimated cost at most the budget of one replica, equality
\* included, and threads not below the configured minimum.
C22_PassingProposalAccepted ==
  /\ proposal # NoProposal
  /\ config.maxReplicas >= 1
  /\ onWhitelist(config, proposal)
  /\ estimateProposal(config, proposal) <= perReplica(config)
  /\ proposal.threads >= config.minCpu
  => accepted

\* A whitelisted proposal that costs exactly the budget of one replica, with
\* enough threads, was accepted.
C22_Witness ==
  /\ proposal # NoProposal
  /\ config.maxReplicas > 1
  /\ config.withProviders.ids # {}
  /\ proposal.provider \in config.withProviders.ids
  /\ estimateProposal(config, proposal) = perReplica(config)
  /\ config.minCpu > 0 /\ proposal.threads >= config.minCpu
  /\ accepted

\* The thread count the budget is made for: the only thread bound of the
\* configuration, minCpu, when it is set, and 1 otherwise.
effectiveThreads(cfg) == IF cfg.minCpu > 0 THEN cfg.minCpu ELSE 1

\* The scenario rentHours = 1, price = 2, maxReplicas = 4, minimum of 2 threads.
ScenarioConfig ==
  [withProviders |-> Undefined, rentHours |-> 1, priceGlmPerHour |-> 2, minCpu |-> 2,
   maxReplicas |-> 4]

C24_ZeroReplicasRefused ==
  config.maxReplicas = 0 => ~golemSet /\ startPc = "none" /\ ipc \in {"idle", "fetching", "failed"}

C26_ValidateNeverRaises ==
  [][\A l \in Leases, o \in GetStateOutcomes :
       validateDone(l, validate(o)) =>
         /\ o \in {"Terminated", "error"} => leaseState'[l] = "destroyed"
         /\ o \notin {"Terminated", "error"} => leaseState'[l] \in {"borrowed", "idle"}
         /\ result' = result
         /\ \A c \in Calls : pc'[c] = pc[c] \/ (pc[c] = "waiting" /\ pc'[c] = "acquired")]_vars

\* The first activity failed its check and was destroyed while the only call made
\* waited for it; the call was then lent the second activity.
C26_Witness ==
  \E c \in Calls :
    /\ leaseState[1] = "destroyed"
    /\ pc[c] = "awaiting" /\ got[c] = 2 /\ leaseState[2] = "borrowed"
    /\ \A d \in Calls \ {c} : pc[d] = "idle"
    /\ \A s \in Stops : spc[s] = "idle"

\* C27: the destroy hook never raises, and a failure while stopping the activity
\* is swallowed and the agreement released all the same: a hook that has settled
\* has resolved, having called releaseAgreement.
C27_DestroyNeverRaises ==
  \A l \in Leases : dpc[l] \notin {"rejectedStop", "rejectedRelease"}

\* C28: an eviction run checks every idle activity and destroys the dead ones:
\* after a run no idle activity is dead.
C28_EvictionRunRemovesDeadIdle ==
  [][\A S \in SUBSET Leases :
       evictionRun(S) => \A l \in Leases : leaseState'[l] = "idle" => l \notin dead']_vars

\* C29: an activity left idle in the pool is eventually destroyed by the eviction
\* runs: once requests stop coming, the pool scales down to nothing.
C29_IdleLeaseEventuallyDestroyed ==
  <>[](\A l \in Leases : leaseState[l] \in {"none", "destroyed"})

\* An activity that served the only call made, was returned to the pool alive
\* and has been destroyed since: nothing but an eviction run can have done it.
C29_Witness ==
  \E c \in Calls :
    /\ pc[c] = "done" /\ result[c] = "resolved" /\ released[c] = 1
    /\ \A d \in Calls \ {c} : pc[d] = "idle"
    /\ nextId = 2 /\ leaseState[1] = "destroyed" /\ 1 \notin dead

\* C30: convertImageToText throws the not-initialized error, and sends nothing to
\* Golem, exactly when the last of init() and shutdown() to have completed is not
\* a successful init(): before any init(), while it runs, after it failed or timed
\* out, and after a shutdown(); otherwise the call goes on to Golem.
C30_NotInitializedGuard ==
  [][\A c \in Calls, exists \in BOOLEAN :
       convertImageToText(c, exists) =>
         /\ (result'[c] = "NotInitialized") <=> (lastDone # "init")
         /\ lastDone # "init" => UNCHANGED <<aborted, onabort, poolVars, got, prom, work>>
         /\ lastDone = "init" /\ exists =>
              pc'[c] = "waiting" \/ result'[c] \in {"PoolDraining", "AbortedBeforeAcquire"}]_vars

\* A call forwarded to Golem after init() succeeded, then a shutdown() that
\* completed, then a call refused as not initialized.
C30_Witness ==
  \E c, d \in Calls :
    /\ d < c
    /\ pc[d] # "idle" /\ result[d] \notin {"NotInitialized", "FileMissing"}
    /\ ipc = "done" /\ shpc = "done" /\ lastDone = "shutdown"
    /\ result[c] = "NotInitialized"

C33_HandedOutOnlyIfValid ==
  /\ [][\A c \in Calls :
          pc[c] = "waiting" /\ pc'[c] = "acquired" =>
            /\ got'[c] \in Leases
            /\ leaseState[got'[c]] = "testing"
            /\ got'[c] \notin dead
            /\ leaseState'[got'[c]] = "borrowed"]_vars
  /\ [][\A l \in Leases :
          leaseState[l] = "testing" /\ l \in dead /\ leaseState'[l] # "testing" =>
            /\ leaseState'[l] = "destroyed"
            /\ \A c \in Calls : got'[c] = l => got[c] = l
            /\ waiting' = waiting
            /\ waiting # <<>> =>
                 creating' > 0 \/ \E m \in Leases : leaseState'[m] = "testing"]_vars

\* The first activity was Terminated when it was tested for the only call made
\* and was destroyed; the call has been handed the second activity.
C33_Witness ==
  \E c \in Calls :
    /\ 1 \in dead /\ leaseState[1] = "destroyed"
    /\ pc[c] = "acquired" /\ got[c] = 2 /\ leaseState[2] = "borrowed" /\ 2 \notin dead
    /\ \A d \in Calls \ {c} : pc[d] = "idle"

\* C34: when the tasks in flight finish and the queued requests settle, every
\* stop() that has begun eventually completes (or rejects with the stage that
\* rejected), so that in the end no stop() is left in progress; and a stop() that
\* has completed leaves no activity on loan.
C34_StopEventuallyCompletes ==
  /\ <>[](\A s \in Stops : spc[s] \in {"idle", "done"} \/ failed[s])
  /\ [](\A s \in Stops : spc[s] = "done" => InState(leaseState, "borrowed") = {})

\* abort() found the first call with its task running; stop() has waited for the
\* call to return its activity and has completed.
C34_Witness ==
  /\ spc[1] = "done" /\ ~failed[1]
  /\ result[1] = "rejAbort" /\ released[1] = 1
  /\ leaseState[1] = "idle"

\* C35: init() fetches the recommended providers only when no whitelist is
\* configured.  When the fetch fails (response not OK, body not an array,
\* exception or timeout) init() does not fail: it goes on to build and start
\* the Golem with an empty whitelist, under which the filter decides on the
\* budget alone, whoever the provider is.
C35_FetchFailureFallsBack ==
  /\ [][ipc # "fetching" /\ ipc' = "fetching" => withProviders = Undefined]_vars
  /\ [][withProviders # Undefined /\ ipc = "idle" /\ ipc' # "idle" =>
          ipc' = "racing" /\ fetched' = "none" /\ UNCHANGED <<withProviders, config>>]_vars
  /\ [][fetched = "none" /\ fetched' = "fallback" =>
          /\ ipc' = "racing" /\ initError' = "none" /\ golemSet' /\ startPc' = "allocating"
          /\ withProviders' = Whitelist({})
          /\ config'.withProviders = Whitelist({})
          /\ \A p \in Proposals :
               buildProposalFilter(config', p)
                 = atMostQuotient(estimateProposal(config', p), getBudgetEstimate(config'),
                                  config'.maxReplicas)]_vars
  /\ [](fetched = "fallback" /\ initError # "none" => startPc = "rejected" \/ timer = "fired")

\* The fetch failed and init() has resolved all the same, with an empty whitelist.
C35_Witness ==
  /\ fetched = "fallback"
  /\ ipc = "done" /\ isInitialized
  /\ config.withProviders = Whitelist({})

\* C36: init() leaves the configuration it was given unchanged: no step changes
\* market.withProviders of the caller's config; an undefined one stays undefined.
C36_InitLeavesConfigUnchanged ==
  [][withProviders' = withProviders]_vars

\* C37: in the single-activity Golem the critical sections (ctx.before() and the
\* task) never overlap: at most one runs at a time and nothing is queued behind
\* a free lock; every queued critical section is eventually started; and one that
\* fails rejects its own call only and hands the lock to the next in the queue.
C37_CriticalSectionsDoNotOverlap ==
  /\ [](Cardinality({c \in Calls : work[c] \in {"before", "task"}}) <= 1)
  /\ [](waiting # <<>> => locked)
  /\ \A c \in Calls : (pc[c] = "waiting") ~> (work[c] = "before")
  /\ [][\A c \in Calls :
          critBeforeFail(c) \/ critTaskFail(c) =>
            /\ result'[c] = "rejTask"
            /\ \A d \in Calls \ {c} : result'[d] = result[d]
            /\ waiting # <<>> =>
                 work'[Head(waiting)] = "before" /\ waiting' = Tail(waiting)]_vars

\* The first call's task failed while two calls were queued; the second has run
\* and resolved, and the third is in its critical section.
C37_Witness ==
  /\ result[1] = "rejTask"
  /\ result[2] = "resolved"
  /\ work[3] = "task"
  /\ leaseState[1] = "idle" /\ nextId = 1

====
